---- MODULE Spec2Model ----
(***************************************************************************)
(* A model of the texide linter core: the Linter engine (texide_core,      *)
(* linter.rs), its result types (result.rs), its configuration (config.rs) *)
(* and the parsers (texide_parser, text.rs and markdown.rs).               *)
(*                                                                         *)
(* Five specifications share the module:                                   *)
(*   Spec          the Linter as a state machine: construction, rule       *)
(*                 loading, file changes, batches of lint_file calls and   *)
(*                 cache persistence;                                      *)
(*   SpecDiscover  Linter::discover_files over a bounded directory tree;   *)
(*   SpecText      PlainTextParser::parse, one loop iteration per step,    *)
(*                 over every source of a bounded length, then the         *)
(*                 Markdown conversion and ast_to_json of the ASTs;        *)
(*   SpecFn        the pure operations: LinterConfig::hash and             *)
(*                 enabled_rules, the parser selected for a path, and      *)
(*                 LintSummary::from_results;                              *)
(*   SpecConc      two threads calling lint_files and load_rule on one     *)
(*                 Linter, one lock operation or stage per step.           *)
(* The cache manager (texide_cache), the plugin host (texide_plugin), the  *)
(* AST types (texide_ast) and the Parser trait's can_parse are not among   *)
(* the sources; the operators that stand for them follow the design        *)
(* document and say so.                                                    *)
(***************************************************************************)
EXTENDS Integers, Sequences, FiniteSets, TLC

VARIABLES
    \* ---- the Linter and its environment (Spec) ----
    linter,     \* "ready" after Linter::new returned Ok, "none" after it returned Err
    config,     \* Linter.config
    host,       \* Linter.plugin_host: the loaded rule modules, in load order
    cache,      \* Linter.cache: [enabled, entries]
    disk,       \* the cache artifact under cache_dir: [present, entries]
    files,      \* the file system: path -> state of the file
    batch,      \* the lint_files call in progress or last returned
    call,       \* history: the last lint_file call, what it read and what it did
    last,       \* history: per path, the last successful lint by this Linter
    everOk,     \* history: the paths some lint_file call returned Ok for
    newCall,    \* history: the last Linter::new call
    step,       \* history: the operation that produced this state
    budget,     \* what is left of the bounds on the environment's moves
    \* ---- discover_files (SpecDiscover) ----
    disc,
    \* ---- PlainTextParser::parse (SpecText) ----
    txt,
    \* ---- MarkdownParser::parse and ast_to_json (SpecText) ----
    ast,
    \* ---- the configuration's and the engine's pure operations (SpecFn) ----
    fn,
    \* ---- threads sharing one Linter (SpecConc) ----
    conc

linterVars == <<linter, config, host, cache, disk, files, batch, call, last,
                everOk, newCall, step, budget>>
vars == <<linterVars, disc, txt, ast, fn, conc>>

(***************************************************************************)
(* Bounds of the model.                                                    *)
(***************************************************************************)
MaxBatchLen == 2
MaxBatches == 2
MaxRestarts == 1
MaxLoads == 2
MaxWrites == 1
MaxSourceLen == 6
MaxPatterns == 2
MaxRules == 2
MaxResults == 3
MaxThreadCalls == 2

(***************************************************************************)
(* Small helpers on finite maps (functions with a finite domain).          *)
(***************************************************************************)
EmptyMap == <<>>

MapPut(m, k, v) ==
    [x \in (DOMAIN m) \cup {k} |-> IF x = k THEN v ELSE m[x]]

RECURSIVE SeqsUpTo(_, _)
SeqsUpTo(S, n) ==
    IF n = 0 THEN {<<>>}
    ELSE LET shorter == SeqsUpTo(S, n - 1)
         IN shorter \cup {Append(s, x) : s \in {t \in shorter : Len(t) = n - 1}, x \in S}

RECURSIVE FlattenSeq(_)
FlattenSeq(ss) ==
    IF ss = <<>> THEN <<>> ELSE Head(ss) \o FlattenSeq(Tail(ss))

Range(s) == {s[i] : i \in DOMAIN s}

Perms(S) ==
    {s \in SeqsUpTo(S, Cardinality(S)) : Len(s) = Cardinality(S) /\ Range(s) = S}

(***************************************************************************)
(* Configuration (config.rs).  A RuleConfig is a tagged value; the rules   *)
(* map is a HashMap, so a LinterConfig carries, besides the map, the order *)
(* in which that HashMap instance iterates its keys (iter).                *)
(***************************************************************************)
RuleEnabled(b) == [kind |-> "Enabled", value |-> b]
RuleSeverity(s) == [kind |-> "Severity", value |-> s]
RuleOptions(o) == [kind |-> "Options", value |-> o]

DefaultCacheDir == ".texide-cache"

LinterConfigNew ==
    [rules |-> EmptyMap, iter |-> <<>>, plugins |-> <<>>, include |-> <<>>,
     exclude |-> <<>>, cache |-> TRUE, cache_dir |-> DefaultCacheDir]

\* The configuration values the model constructs Linters from (iter not yet chosen).
ConfigValues ==
    { LinterConfigNew,
      [LinterConfigNew EXCEPT !.rules = ("no-todo" :> RuleEnabled(TRUE))
                                         @@ ("max-lines" :> RuleOptions("max=100"))],
      [LinterConfigNew EXCEPT !.cache = FALSE],
      [LinterConfigNew EXCEPT !.include = <<"[">>] }

\* A HashMap built from a configuration value iterates in some order of its keys.
HashMapOrders(v) == Perms(DOMAIN v.rules)

\* Variant of IsEnabled: the severity "off" is recognised in any spelling.
IsEnabledAnySpelling(rc) ==
    CASE rc.kind = "Enabled" -> rc.value
      [] rc.kind = "Severity" -> rc.value \notin {"off", "OFF"}
      [] rc.kind = "Options" -> TRUE

\* RuleConfig::is_enabled
IsEnabled(rc) ==
    CASE rc.kind = "Enabled" -> rc.value
      [] rc.kind = "Severity" -> rc.value # "off"
      [] rc.kind = "Options" -> TRUE

\* LinterConfig::enabled_rules: the map's entries in iteration order, filtered by
\* is_enabled, as (name, config) pairs.
EnabledRules(cfg) ==
    SelectSeq([i \in DOMAIN cfg.iter |-> <<cfg.iter[i], cfg.rules[cfg.iter[i]]>>],
              LAMBDA entry : IsEnabled(entry[2]))

\* serde_json::to_string(self): the fields in declaration order, the rules map
\* written in the HashMap's iteration order.
ConfigJson(cfg) ==
    << [i \in DOMAIN cfg.iter |-> <<cfg.iter[i], cfg.rules[cfg.iter[i]]>>],
       cfg.plugins, cfg.include, cfg.exclude, cfg.cache, cfg.cache_dir >>

\* blake3 of the serialization; distinct inputs give distinct digests.
ConfigHash(cfg) == [blake3 |-> ConfigJson(cfg)]

\* CacheManager::hash_content: blake3 of the content.
HashContent(content) == [blake3 |-> content]

\* Glob::new(pattern) succeeds.
GlobValid(pattern) == pattern # "["

\* build_globset: Ok iff every pattern is a valid glob (an empty list is Ok(None)).
BuildGlobsetOk(patterns) == \A i \in DOMAIN patterns : GlobValid(patterns[i])

(***************************************************************************)
(* Files.                                                                  *)
(***************************************************************************)
Paths == {"a.md", "b.txt"}

\* Path::extension() on the paths of the model: the part of the file name after
\* its last dot; None when the file name has no dot, or only a leading one.
PathExtension(p) ==
    CASE p \in {"a.md", "a.tar.md", "dir.txt/a.md"} -> <<"md">>
      [] p = "A.MD" -> <<"MD">>
      [] p = "a.Md" -> <<"Md">>
      [] p = "a.markdown" -> <<"markdown">>
      [] p = "a.MarkDown" -> <<"MarkDown">>
      [] p = "a.mdown" -> <<"mdown">>
      [] p = "a.mkdn" -> <<"mkdn">>
      [] p = "a.mkd" -> <<"mkd">>
      [] p \in {"b.txt", "a.md.txt"} -> <<"txt">>
      [] p = "B.TXT" -> <<"TXT">>
      [] p = "b.text" -> <<"text">>
      [] p = "a.rs" -> <<"rs">>
      [] p = "a.mdx" -> <<"mdx">>
      [] p = "a." -> <<"">>
      [] p \in {"README", ".md", "dir.md/README"} -> <<>>

\* path.extension().and_then(|e| e.to_str()).unwrap_or("")
Extension(p) == IF PathExtension(p) = <<>> THEN "" ELSE PathExtension(p)[1]

\* What a file can be: UTF-8 text, absent, or bytes that are not UTF-8.  "mdx" is
\* text without a todo that the Markdown library refuses to parse.
Contents == {"todo", "mdx"}
FileStates == Contents \cup {"missing", "binary"}

\* fs::read_to_string(path)
ReadToString(p) ==
    IF files[p] \in Contents THEN [ok |-> TRUE, content |-> files[p]]
    ELSE [ok |-> FALSE, content |-> ""]

(***************************************************************************)
(* Parsers, as lint_file uses them.                                        *)
(***************************************************************************)
MarkdownExtensions == {"md", "markdown", "mdown", "mkdn", "mkd"}
TextExtensions == {"txt", "text"}

\* The extension in ASCII lowercase, on the spellings of the model.
AsciiLowercase(extension) ==
    CASE extension \in {"MD", "Md"} -> "md"
      [] extension = "MarkDown" -> "markdown"
      [] extension = "TXT" -> "txt"
      [] OTHER -> extension

\* Parser::can_parse (crate texide_parser): a case-insensitive test against the
\* parser's extensions.
CanParse(extensions, extension) == AsciiLowercase(extension) \in extensions

\* Variant of SelectParser: the extension is compared as it is spelled.
SelectParserExact(extension) ==
    IF extension \in MarkdownExtensions THEN "markdown"
    ELSE IF extension \in TextExtensions THEN "text"
    ELSE "text"

SelectParser(extension) ==
    IF CanParse(MarkdownExtensions, extension) THEN "markdown"
    ELSE IF CanParse(TextExtensions, extension) THEN "text"
    ELSE "text"

\* parser.parse(&arena, &content): the plain-text parser always returns Ok; the
\* Markdown parser returns Err when to_mdast does.
ParseOk(parser, content) == ~(parser = "markdown" /\ content = "mdx")

(***************************************************************************)
(* Results (result.rs).                                                    *)
(***************************************************************************)
LintResultNew(path, diagnostics) ==
    [path |-> path, diagnostics |-> diagnostics, from_cache |-> FALSE]

LintResultCached(path, diagnostics) ==
    [path |-> path, diagnostics |-> diagnostics, from_cache |-> TRUE]

\* LintResult::has_errors
HasErrors(result) == result.diagnostics # <<>>

\* LintSummary::default()
LintSummaryDefault ==
    [files_checked |-> 0, files_from_cache |-> 0, total_diagnostics |-> 0,
     files_with_errors |-> 0]

\* Variant of SummaryAdd: a file counts as one with errors only when the result
\* was not taken from the cache.
SummaryAddFreshErrors(summary, result) ==
    [summary EXCEPT
        !.files_checked = @ + 1,
        !.files_from_cache = IF result.from_cache THEN @ + 1 ELSE @,
        !.total_diagnostics = @ + Len(result.diagnostics),
        !.files_with_errors = IF HasErrors(result) /\ ~result.from_cache THEN @ + 1 ELSE @]

\* The body of the loop of from_results.
SummaryAdd(summary, result) ==
    [summary EXCEPT
        !.files_checked = @ + 1,
        !.files_from_cache = IF result.from_cache THEN @ + 1 ELSE @,
        !.total_diagnostics = @ + Len(result.diagnostics),
        !.files_with_errors = IF HasErrors(result) THEN @ + 1 ELSE @]

\* LintSummary::from_results
RECURSIVE SummaryLoop(_, _)
SummaryLoop(summary, results) ==
    IF results = <<>> THEN summary
    ELSE SummaryLoop(SummaryAdd(summary, Head(results)), Tail(results))

FromResults(results) == SummaryLoop(LintSummaryDefault, results)

(***************************************************************************)
(* Plugin host (crate texide_plugin, modelled from the design document).   *)
(* The registry is the sequence of loaded rule modules in load order.      *)
(***************************************************************************)
RuleModules ==
    { [name |-> "good", version |-> "1.0"],
      [name |-> "good", version |-> "2.0"],
      [name |-> "bad", version |-> "1.0"] }

PluginHostNew == <<>>

LoadedRules(h) == [i \in DOMAIN h |-> h[i].name]

\* load_rule refuses a module whose name is already registered.
HostCanLoad(h, m) == \A i \in DOMAIN h : h[i].name # m.name

HostLoadRule(h, m) == Append(h, m)

\* One rule invocation: "good" reports every todo (version 2.0 words it
\* differently), "bad" traps on every input.
RunRule(m, content) ==
    IF m.name = "bad" THEN [failed |-> TRUE, diagnostics |-> <<>>]
    ELSE [failed |-> FALSE,
          diagnostics |-> IF content = "todo"
                          THEN << [rule_id |-> m.name,
                                   message |-> IF m.version = "1.0" THEN "todo found"
                                               ELSE "todo found (v2)"] >>
                          ELSE <<>>]

\* The diagnostic the host emits in place of a failed rule's output.
HostDiagnostic(m) == [rule_id |-> m.name, message |-> "rule crashed"]

RuleFails(h, content) == \E i \in DOMAIN h : RunRule(h[i], content).failed

\* run_all_rules in load order, a failed rule replaced by the host's diagnostic.
RunAllRulesDiagnostics(h, content) ==
    FlattenSeq([i \in DOMAIN h |->
        IF RunRule(h[i], content).failed THEN <<HostDiagnostic(h[i])>>
        ELSE RunRule(h[i], content).diagnostics])

\* run_all_rules returns a Result.  When no rule fails it is Ok.  When a rule
\* fails the host either converts the failure ("convert") or reports it as the
\* Err of its Result ("report"); which one is the host's choice.
HostOutcomes(h, content) ==
    IF RuleFails(h, content) THEN {"convert", "report"} ELSE {"convert"}

RunAllRules(h, content, outcome) ==
    IF outcome = "report" THEN [ok |-> FALSE, diagnostics |-> <<>>]
    ELSE [ok |-> TRUE, diagnostics |-> RunAllRulesDiagnostics(h, content)]

\* Linter::get_rule_versions: name -> manifest.version of every loaded rule.
GetRuleVersions(h) ==
    [n \in Range(LoadedRules(h)) |->
        h[CHOOSE i \in DOMAIN h : h[i].name = n].version]

(***************************************************************************)
(* Cache manager (crate texide_cache, modelled from the design document).  *)
(* entries maps a path to its CacheEntry; the timestamp is left out.       *)
(***************************************************************************)
CacheManagerNew == [enabled |-> TRUE, entries |-> EmptyMap]

CacheDisable(c) == [c EXCEPT !.enabled = FALSE]

CacheEntryNew(content_hash, config_hash, rule_versions, diagnostics) ==
    [content_hash |-> content_hash, config_hash |-> config_hash,
     rule_versions |-> rule_versions, diagnostics |-> diagnostics]

\* The validity predicate: enabled, an entry exists, and the three parts of the
\* fingerprint are equal.
CacheIsValid(c, p, content_hash, config_hash, rule_versions) ==
    /\ c.enabled
    /\ p \in DOMAIN c.entries
    /\ c.entries[p].content_hash = content_hash
    /\ c.entries[p].config_hash = config_hash
    /\ c.entries[p].rule_versions = rule_versions

CacheHas(c, p) == p \in DOMAIN c.entries

CacheGet(c, p) == c.entries[p]

CacheSet(c, p, entry) == [c EXCEPT !.entries = MapPut(@, p, entry)]

\* load(): the artifact's entries when it can be read, otherwise an empty cache.
CacheLoad(c, d, loadOk) ==
    IF loadOk /\ d.present THEN [c EXCEPT !.entries = d.entries]
    ELSE [c EXCEPT !.entries = EmptyMap]

\* save(): writes the artifact atomically, or fails and leaves it as it was.
CacheSave(c, d, saveOk) ==
    IF saveOk THEN [present |-> TRUE, entries |-> c.entries] ELSE d

(***************************************************************************)
(* Linter::new (linter.rs).                                                *)
(***************************************************************************)
\* Variant of NewCache: the cache flag of the configuration is ignored.
NewCacheNeverDisabled(cfg) == CacheManagerNew

\* The cache as new() builds it before loading: disabled when config.cache is false.
NewCache(cfg) ==
    IF ~cfg.cache THEN CacheDisable(CacheManagerNew) ELSE CacheManagerNew

\* A failed load is logged and construction goes on with the cache as it is.
NewAfterLoad(cfg, d, loadOk) == CacheLoad(NewCache(cfg), d, loadOk)

\* new() returns Err only when a globset cannot be built.
NewReturnsOk(cfg, loadOk) ==
    BuildGlobsetOk(cfg.include) /\ BuildGlobsetOk(cfg.exclude)

(***************************************************************************)
(* Linter::lint_file (linter.rs), as a function of the state, the path and *)
(* the outcome the plugin host gives.  The value says what was returned    *)
(* (res is "ok", or the kind of the LinterError), what the cache is after  *)
(* the call and which stages ran.                                          *)
(***************************************************************************)
NoResult(p) == LintResultNew(p, <<>>)

\* fs::read_to_string failed: the error is returned at once.
OnReadError(c, p) ==
    [res |-> "file", result |-> NoResult(p), cache |-> c,
     parsed |-> FALSE, ran |-> FALSE]

\* The cache answered: the entry's diagnostics are returned as a cached result.
OnCacheHit(c, p) ==
    [res |-> "ok", result |-> LintResultCached(p, CacheGet(c, p).diagnostics),
     cache |-> c, parsed |-> FALSE, ran |-> FALSE]

\* Variant of OnParseError: an entry without diagnostics is stored for the file
\* that failed to parse.
OnParseErrorCaching(c, p) ==
    [res |-> "parse", result |-> NoResult(p),
     cache |-> CacheSet(c, p, CacheEntryNew(HashContent(""), ConfigHash(config),
                                            EmptyMap, <<>>)),
     parsed |-> TRUE, ran |-> FALSE]

\* parser.parse failed: the error is returned before rules run or the cache is written.
OnParseError(c, p) ==
    [res |-> "parse", result |-> NoResult(p), cache |-> c,
     parsed |-> TRUE, ran |-> FALSE]

\* run_all_rules returned Err: the ? operator returns it before the cache is written.
OnPluginError(c, p) ==
    [res |-> "plugin", result |-> NoResult(p), cache |-> c,
     parsed |-> TRUE, ran |-> TRUE]

\* Variant of LintFileEntry: the diagnostics are not cloned into the entry.
LintFileEntryNoDiagnostics(content_hash, config_hash, rule_versions, diagnostics) ==
    CacheEntryNew(content_hash, config_hash, rule_versions, <<>>)

\* The entry lint_file stores after a miss.
LintFileEntry(content_hash, config_hash, rule_versions, diagnostics) ==
    CacheEntryNew(content_hash, config_hash, rule_versions, diagnostics)

\* Rules ran: the entry is stored and a fresh result returned.
OnLinted(c, p, content_hash, config_hash, rule_versions, diagnostics) ==
    [res |-> "ok", result |-> LintResultNew(p, diagnostics),
     cache |-> CacheSet(c, p, LintFileEntry(content_hash, config_hash,
                                            rule_versions, diagnostics)),
     parsed |-> TRUE, ran |-> TRUE]

lint_file(p, outcome) ==
    LET read == ReadToString(p)
        content == read.content
        content_hash == HashContent(content)
        config_hash == ConfigHash(config)
        rule_versions == GetRuleVersions(host)
        parser == SelectParser(Extension(p))
        run == RunAllRules(host, content, outcome)
    IN  IF ~read.ok THEN OnReadError(cache, p)
        ELSE IF CacheIsValid(cache, p, content_hash, config_hash, rule_versions)
                /\ CacheHas(cache, p)
        THEN OnCacheHit(cache, p)
        ELSE IF ~ParseOk(parser, content) THEN OnParseError(cache, p)
        ELSE IF ~run.ok THEN OnPluginError(cache, p)
        ELSE OnLinted(cache, p, content_hash, config_hash, rule_versions,
                      run.diagnostics)

(***************************************************************************)
(* Linter::lint_files (linter.rs): the loop over the paths, one lint_file  *)
(* call per step, then the save and the return.                            *)
(***************************************************************************)
\* Variant of PushResult: the result is put in front.
PushResultFront(results, result) == <<result>> \o results

\* Ok(result) => results.push(result)
PushResult(results, result) == Append(results, result)

\* Err(e) => warn!(...): the path is skipped
SkipFailed(results) == results

\* Variant of LintFilesReturn: a failed save is returned as the batch's error.
LintFilesReturnSaveError(results, saveOk) ==
    [ok |-> saveOk, results |-> IF saveOk THEN results ELSE <<>>]

\* After the loop: the value returned, whatever save() answered.
LintFilesReturn(results, saveOk) == [ok |-> TRUE, results |-> results]

IdleBatch ==
    [pc |-> "idle", paths |-> <<>>, i |-> 1, results |-> <<>>, oks |-> <<>>,
     saves |-> 0, savedAt |-> 0, saveOk |-> TRUE,
     ret |-> [ok |-> TRUE, results |-> <<>>]]

NoCall ==
    [path |-> "a.md", readOk |-> FALSE, content |-> "", versions |-> EmptyMap,
     ruleFails |-> FALSE, outcome |-> "convert", res |-> "file",
     result |-> NoResult("a.md"), parsed |-> FALSE, ran |-> FALSE, prev |-> <<>>]

NoNewCall == [loadOk |-> TRUE, res |-> "ok"]

(***************************************************************************)
(* PlainTextParser::parse (text.rs).  A source is a sequence of one-byte   *)
(* characters; offsets are 0-based byte offsets as in the code.            *)
(***************************************************************************)
LF == "\n"
CR == "\r"
SP == " "
Chars == {"a", SP, LF, CR}

\* char::is_whitespace on the model's characters
IsWhitespace(ch) == ch \in {SP, LF, CR}

\* &s[a..b]
Slice(s, a, b) == SubSeq(s, a + 1, b)

\* str::trim_end, str::trim_start, str::trim
RECURSIVE TrimEnd(_)
TrimEnd(s) ==
    IF s # <<>> /\ IsWhitespace(s[Len(s)]) THEN TrimEnd(SubSeq(s, 1, Len(s) - 1))
    ELSE s

RECURSIVE TrimStart(_)
TrimStart(s) ==
    IF s # <<>> /\ IsWhitespace(s[1]) THEN TrimStart(Tail(s)) ELSE s

Trim(s) == TrimStart(TrimEnd(s))

\* str::rfind(ch): the offset of the last occurrence, -1 for None
RFind(s, ch) ==
    IF \E i \in 1..Len(s) : s[i] = ch
    THEN (CHOOSE i \in 1..Len(s) : s[i] = ch /\ \A j \in (i + 1)..Len(s) : s[j] # ch) - 1
    ELSE -1

\* str::split_inclusive('\n'): pieces that end with their line feed, the last
\* piece ending where the string does.
RECURSIVE SplitInclusive(_)
SplitInclusive(s) ==
    IF s = <<>> THEN <<>>
    ELSE IF \E i \in 1..Len(s) : s[i] = LF
    THEN LET i == CHOOSE k \in 1..Len(s) : s[k] = LF /\ \A j \in 1..(k - 1) : s[j] # LF
         IN  <<SubSeq(s, 1, i)>> \o SplitInclusive(SubSeq(s, i + 1, Len(s)))
    ELSE <<s>>

\* One line of str::lines(): the piece without its "\n" or "\r\n"; a "\r" that no
\* "\n" follows stays.
StripLineEnding(piece) ==
    IF piece # <<>> /\ piece[Len(piece)] = LF
    THEN LET l == SubSeq(piece, 1, Len(piece) - 1)
         IN  IF l # <<>> /\ l[Len(l)] = CR THEN SubSeq(l, 1, Len(l) - 1) ELSE l
    ELSE piece

\* str::lines()
Lines(s) == [i \in DOMAIN SplitInclusive(s) |-> StripLineEnding(SplitInclusive(s)[i])]

Max(a, b) == IF a >= b THEN a ELSE b

\* usize::saturating_sub
SaturatingSub(a, b) == IF a >= b THEN a - b ELSE 0

\* Span::new(start as u32, end as u32).  The offsets of a source of the model are
\* bounded by MaxSourceLen, where the cast to u32 keeps the value.
SpanNew(start, end) == [start |-> start, end |-> end]

\* Paragraph(children = [Str(value)]), both with the span start .. start + len;
\* the Str is a text node and has no children
ParagraphNode(start, para_text) ==
    [node_type |-> "Paragraph",
     span |-> SpanNew(start, start + Len(para_text)),
     children |-> << [node_type |-> "Str",
                      span |-> SpanNew(start, start + Len(para_text)),
                      value |-> para_text,
                      children |-> <<>>] >>]

\* The state of parse before its loop.
ParseStart(source) ==
    [pc |-> "loop", source |-> source, lines |-> Lines(source), idx |-> 0,
     current_start |-> -1, current_end |-> 0, paragraphs |-> <<>>,
     line_starts |-> <<>>, document |-> <<>>]

\* The offset the loop takes for the start of line idx.
LineStart(source, idx, current_end) ==
    IF idx = 0 THEN 0
    ELSE LET r == RFind(Slice(source, 0, current_end), LF)
         IN  IF r >= 0 THEN r + 1 ELSE current_end

\* current_end after line idx: past the line and past a "\n" right after it.
CurrentEnd(source, line_start, line) ==
    LET e == line_start + Len(line)
    IN  IF e < Len(source) /\ source[e + 1] = LF THEN e + 1 ELSE e

\* The text of the paragraph a blank line closes.
ClosedParagraphText(source, start, line_start) ==
    Slice(source, start, Max(SaturatingSub(line_start, 1), start))

\* The text of the paragraph still open when the lines are exhausted.
FinalParagraphText(source, start) == TrimEnd(Slice(source, start, Len(source)))

\* One iteration of the loop over source.lines().enumerate().
ParseLine(st) ==
    LET line == st.lines[st.idx + 1]
        line_start == LineStart(st.source, st.idx, st.current_end)
        current_end == CurrentEnd(st.source, line_start, line)
        para_text == ClosedParagraphText(st.source, st.current_start, line_start)
        closes == Trim(line) = <<>> /\ st.current_start # -1
    IN  [st EXCEPT
            !.idx = @ + 1,
            !.current_end = current_end,
            !.line_starts = Append(@, line_start),
            !.paragraphs = IF closes /\ Trim(para_text) # <<>>
                           THEN Append(@, ParagraphNode(st.current_start, para_text))
                           ELSE @,
            !.current_start = IF Trim(line) = <<>> THEN -1
                              ELSE IF @ = -1 THEN line_start ELSE @]

\* After the loop: the final paragraph, then the Document.
ParseFinal(st) ==
    LET para_text == FinalParagraphText(st.source, st.current_start)
        paragraphs == IF st.current_start # -1 /\ para_text # <<>>
                      THEN Append(st.paragraphs, ParagraphNode(st.current_start, para_text))
                      ELSE st.paragraphs
    IN  [st EXCEPT
            !.pc = "done",
            !.paragraphs = paragraphs,
            !.document = << [node_type |-> "Document",
                             span |-> SpanNew(0, Len(st.source)),
                             children |-> paragraphs] >>]

\* parse(arena, source), run to its end.
RECURSIVE ParseRun(_)
ParseRun(st) ==
    IF st.pc = "done" THEN st
    ELSE IF st.idx < Len(st.lines) THEN ParseRun(ParseLine(st))
    ELSE ParseRun(ParseFinal(st))

PlainTextParse(source) == ParseRun(ParseStart(source)).document[1]

(***************************************************************************)
(* MarkdownParser (markdown.rs).  to_mdast is the markdown library; what   *)
(* it returns is an mdast tree whose nodes may carry a position.  A node   *)
(* of either tree is a record; an optional attribute that is None is a     *)
(* field the record does not have.                                         *)
(***************************************************************************)
\* An Option: <<>> is None, <<x>> is Some(x).  The field key when it is Some.
OptField(key, option) == IF option = <<>> THEN <<>> ELSE (key :> option[1])

\* TxtNode::new_parent, new_text and new_leaf (crate texide_ast).
TxtNodeNewParent(node_type, span, children) ==
    [node_type |-> node_type, span |-> span, children |-> children]

TxtNodeNewText(node_type, span, value) ==
    [node_type |-> node_type, span |-> span, children |-> <<>>, value |-> value]

TxtNodeNewLeaf(node_type, span) ==
    [node_type |-> node_type, span |-> span, children |-> <<>>]

\* Variant of node_span: the end offset is taken for the start and the start for
\* the end.
NodeSpanReversed(node) ==
    IF node.position # <<>>
    THEN SpanNew(node.position[1].end, node.position[1].start)
    ELSE SpanNew(0, 0)

\* node_span: the offsets of the node's position, 0..0 for a node without one.
NodeSpan(node) ==
    IF node.position # <<>>
    THEN SpanNew(node.position[1].start, node.position[1].end)
    ELSE SpanNew(0, 0)

ParentKinds ==
    [Root |-> "Document", Paragraph |-> "Paragraph", Emphasis |-> "Emphasis",
     Strong |-> "Strong", ListItem |-> "ListItem", Blockquote |-> "BlockQuote",
     Delete |-> "Delete", Table |-> "Table", TableRow |-> "TableRow",
     TableCell |-> "TableCell"]

TextKinds == [Text |-> "Str", InlineCode |-> "Code", Html |-> "Html"]

LeafKinds == [ThematicBreak |-> "HorizontalRule", Break |-> "Break"]

\* convert_node, with convert_children mapped over the children in order.
RECURSIVE ConvertNode(_)
ConvertChildren(children) == [i \in DOMAIN children |-> ConvertNode(children[i])]

ConvertNode(node) ==
    LET span == NodeSpan(node)
        k == node.kind
    IN  IF k \in DOMAIN ParentKinds
        THEN TxtNodeNewParent(ParentKinds[k], span, ConvertChildren(node.children))
        ELSE IF k \in DOMAIN TextKinds
        THEN TxtNodeNewText(TextKinds[k], span, node.value)
        ELSE IF k \in DOMAIN LeafKinds
        THEN TxtNodeNewLeaf(LeafKinds[k], span)
        ELSE IF k = "Heading"
        THEN TxtNodeNewParent("Header", span, ConvertChildren(node.children))
             @@ ("depth" :> node.depth)
        ELSE IF k = "Code"
        THEN TxtNodeNewText("CodeBlock", span, node.value) @@ OptField("lang", node.lang)
        ELSE IF k = "Link"
        THEN TxtNodeNewParent("Link", span, ConvertChildren(node.children))
             @@ ("url" :> node.url) @@ OptField("title", node.title)
        ELSE IF k = "Image"
        THEN TxtNodeNewLeaf("Image", span)
             @@ ("url" :> node.url) @@ OptField("title", node.title)
        ELSE IF k = "List"
        THEN TxtNodeNewParent("List", span, ConvertChildren(node.children))
             @@ ("ordered" :> node.ordered)
        ELSE IF k \in {"FootnoteDefinition", "LinkReference"}
        THEN TxtNodeNewParent(k, span, ConvertChildren(node.children))
             @@ ("identifier" :> node.identifier) @@ OptField("label", node.label)
        ELSE IF k \in {"FootnoteReference", "ImageReference"}
        THEN TxtNodeNewLeaf(k, span)
             @@ ("identifier" :> node.identifier) @@ OptField("label", node.label)
        ELSE IF k = "Definition"
        THEN TxtNodeNewLeaf("Definition", span)
             @@ ("identifier" :> node.identifier) @@ ("url" :> node.url)
             @@ OptField("title", node.title) @@ OptField("label", node.label)
        ELSE TxtNodeNewLeaf("Html", span)

\* MarkdownParser::parse after to_mdast returned Ok(mdast).
MarkdownParse(mdast) == ConvertNode(mdast)

\* The positions the library can give a node of a source of n bytes.
MdPositions(n) ==
    {<<>>} \cup {<<[start |-> s, end |-> n]>> : s \in {0, n}}

MdNode(kind, position, children) ==
    [kind |-> kind, position |-> position, children |-> children]

\* The inline nodes, the block nodes and the trees the model lets to_mdast
\* return for a source of n bytes.
MdInlines(n) ==
    {MdNode("Text", pos, <<>>) @@ ("value" :> "a") : pos \in MdPositions(n)}
    \cup {MdNode("Link", <<[start |-> 0, end |-> n]>>,
                 <<MdNode("Text", <<[start |-> 0, end |-> n]>>, <<>>) @@ ("value" :> "a")>>)
              @@ ("url" :> "u") @@ ("title" :> title) : title \in {<<>>, <<"t">>}}

MdBlocks(n) ==
    {MdNode("Heading", <<[start |-> 0, end |-> n]>>,
            <<MdNode("Text", <<[start |-> 0, end |-> n]>>, <<>>) @@ ("value" :> "a")>>)
         @@ ("depth" :> depth) : depth \in {1, 2}}
    \cup {MdNode("Paragraph", <<[start |-> 0, end |-> n]>>, <<inline>>) :
              inline \in MdInlines(n)}
    \cup {MdNode("Code", <<[start |-> 0, end |-> n]>>, <<>>)
              @@ ("value" :> "c") @@ ("lang" :> lang) : lang \in {<<>>, <<"rs">>}}
    \cup {MdNode("List", <<[start |-> 0, end |-> n]>>, <<>>)
              @@ ("ordered" :> ordered) : ordered \in BOOLEAN}
    \cup {MdNode("Yaml", <<[start |-> 0, end |-> n]>>, <<>>) @@ ("value" :> "y")}

MdastTrees(n) ==
    {MdNode("Root", <<[start |-> 0, end |-> n]>>, children) :
         children \in {<<>>} \cup {<<block>> : block \in MdBlocks(n)}}

(***************************************************************************)
(* Linter::ast_to_json (linter.rs): the JSON object handed to the rules,   *)
(* a function from its keys to their values.                               *)
(***************************************************************************)
\* Display of a NodeType (crate texide_ast): the name in lowercase.
NodeTypeDisplay ==
    [Document |-> "document", Paragraph |-> "paragraph", Header |-> "header",
     Str |-> "str", Emphasis |-> "emphasis", Strong |-> "strong", Code |-> "code",
     CodeBlock |-> "codeblock", Link |-> "link", Image |-> "image", List |-> "list",
     ListItem |-> "listitem", BlockQuote |-> "blockquote",
     HorizontalRule |-> "horizontalrule", Break |-> "break", Html |-> "html",
     Delete |-> "delete", Table |-> "table", TableRow |-> "tablerow",
     TableCell |-> "tablecell", FootnoteDefinition |-> "footnotedefinition",
     FootnoteReference |-> "footnotereference", LinkReference |-> "linkreference",
     ImageReference |-> "imagereference", Definition |-> "definition"]

RECURSIVE ast_to_json(_)
ast_to_json(node) ==
    [type |-> NodeTypeDisplay[node.node_type],
     range |-> <<node.span.start, node.span.end>>,
     children |-> [i \in DOMAIN node.children |-> ast_to_json(node.children[i])]]

\* The state of the Markdown side of SpecText.
AstIdle == [pc |-> "off", mdast |-> <<>>, md |-> <<>>, md_json |-> <<>>, text_json |-> <<>>]

AstStart == [AstIdle EXCEPT !.pc = "start"]

(***************************************************************************)
(* Linter::discover_files (linter.rs).  The working directory is a small   *)
(* tree; a glob is known by the paths its matcher accepts.                 *)
(***************************************************************************)
DirEntries ==
    { [path |-> "./docs", is_file |-> FALSE],
      [path |-> "./docs/a.md", is_file |-> TRUE],
      [path |-> "./notes.md", is_file |-> TRUE],
      [path |-> "./notes.txt", is_file |-> TRUE] }

\* The place of a path in the order of PathBuf.
PathRank(path) ==
    CASE path = "./docs" -> 1
      [] path = "./docs/a.md" -> 2
      [] path = "./notes.md" -> 3
      [] path = "./notes.txt" -> 4

Globs == {"*.md", "*notes*", "*docs*"}

\* GlobMatcher::is_match / GlobSet::is_match for one glob
GlobMatches(glob, path) ==
    CASE glob = "*.md" -> path \in {"./docs/a.md", "./notes.md"}
      [] glob = "*notes*" -> path \in {"./notes.md", "./notes.txt"}
      [] glob = "*docs*" -> path \in {"./docs", "./docs/a.md"}
      [] OTHER -> FALSE

\* A globset matches a path when one of its globs does.
GlobSetMatches(globset, path) == \E g \in globset : GlobMatches(g, path)

\* The orders in which WalkDir can yield the entries: a directory before its
\* content, siblings in any order.
WalkOrders ==
    {w \in Perms(DirEntries) :
        \E i \in DOMAIN w : w[i].path = "./docs" /\ i < Len(w) /\ w[i + 1].path = "./docs/a.md"}

\* The test one entry passes to be pushed for a pattern.  An empty include or
\* exclude list is no globset (None).
Discovered(entry, pattern, include, exclude) ==
    /\ entry.is_file
    /\ GlobMatches(pattern, entry.path)
    /\ ~(exclude # {} /\ GlobSetMatches(exclude, entry.path))
    /\ ~(include # {} /\ ~GlobSetMatches(include, entry.path))

\* The inner loop: the paths pushed for one pattern, in walk order.
WalkPattern(walk, pattern, include, exclude) ==
    LET hits == SelectSeq(walk, LAMBDA e : Discovered(e, pattern, include, exclude))
    IN  [i \in DOMAIN hits |-> hits[i].path]

\* Vec::sort on paths
RECURSIVE InsertSorted(_, _)
InsertSorted(sorted, path) ==
    IF sorted = <<>> THEN <<path>>
    ELSE IF PathRank(path) < PathRank(Head(sorted)) THEN <<path>> \o sorted
    ELSE <<Head(sorted)>> \o InsertSorted(Tail(sorted), path)

RECURSIVE SortPaths(_)
SortPaths(paths) ==
    IF paths = <<>> THEN <<>>
    ELSE InsertSorted(SortPaths(SubSeq(paths, 1, Len(paths) - 1)), paths[Len(paths)])

\* Vec::dedup: of each run of equal consecutive elements the first is kept
RECURSIVE Dedup(_)
Dedup(paths) ==
    IF Len(paths) <= 1 THEN paths
    ELSE IF paths[1] = paths[2] THEN Dedup(Tail(paths))
    ELSE <<paths[1]>> \o Dedup(Tail(paths))

\* Variant of SortDedup: the duplicates are dropped before the paths are sorted.
DedupSort(paths) == SortPaths(Dedup(paths))

\* files.sort(); files.dedup();
SortDedup(paths) == Dedup(SortPaths(paths))

DiscoverStart(patterns, include, exclude, walk) ==
    [pc |-> "loop", patterns |-> patterns, include |-> include, exclude |-> exclude,
     walk |-> walk, k |-> 1, files |-> <<>>, ret |-> [ok |-> TRUE, files |-> <<>>]]

\* One iteration of the loop over the patterns; an invalid pattern returns Err.
DiscoverPattern(d) ==
    IF ~GlobValid(d.patterns[d.k])
    THEN [d EXCEPT !.pc = "done", !.ret = [ok |-> FALSE, files |-> <<>>]]
    ELSE [d EXCEPT !.k = @ + 1,
                   !.files = @ \o WalkPattern(d.walk, d.patterns[d.k], d.include, d.exclude)]

\* After the loop: sort, dedup, return.
DiscoverReturn(d) ==
    [d EXCEPT !.pc = "done", !.ret = [ok |-> TRUE, files |-> SortDedup(d.files)]]

(***************************************************************************)
(* The Linter's specification.                                             *)
(***************************************************************************)
InitFiles == [p \in Paths |-> "todo"]

LinterInit ==
    /\ linter = "ready"
    /\ config = LinterConfigNew
    /\ host = PluginHostNew
    /\ cache = NewAfterLoad(LinterConfigNew, [present |-> FALSE, entries |-> EmptyMap], TRUE)
    /\ disk = [present |-> FALSE, entries |-> EmptyMap]
    /\ files = InitFiles
    /\ batch = IdleBatch
    /\ call = NoCall
    /\ last = EmptyMap
    /\ everOk = {}
    /\ newCall = NoNewCall
    /\ step = "init"
    /\ budget = [restarts |-> MaxRestarts, loads |-> MaxLoads,
                 writes |-> MaxWrites, batches |-> MaxBatches]

DiscIdle == [DiscoverStart(<<>>, {}, {}, <<>>) EXCEPT !.pc = "off"]

TxtIdle == [ParseStart(<<>>) EXCEPT !.pc = "off"]

FnIdle == [op |-> "off"]

FnStart == [op |-> "start"]

ConcIdle ==
    [pc |-> "off", host |-> PluginHostNew, cache |-> CacheManagerNew,
     cacheLock |-> "none", hostLock |-> "none", threads |-> EmptyMap,
     produced |-> EmptyMap]

Init ==
    /\ LinterInit
    /\ disc = DiscIdle
    /\ txt = TxtIdle
    /\ ast = AstIdle
    /\ fn = FnIdle
    /\ conc = ConcIdle

\* Linter::new(config): a new Linter replaces the current one.
New(v, order, loadOk) ==
    LET cfg == [v EXCEPT !.iter = order]
        ok == NewReturnsOk(cfg, loadOk)
    IN  /\ batch.pc # "running"
        /\ budget.restarts > 0
        /\ budget.batches > 0
        /\ budget' = [budget EXCEPT !.restarts = @ - 1]
        /\ linter' = IF ok THEN "ready" ELSE "none"
        /\ config' = cfg
        /\ host' = PluginHostNew
        /\ cache' = IF ok THEN NewAfterLoad(cfg, disk, loadOk) ELSE NewCache(cfg)
        /\ batch' = IdleBatch
        /\ last' = EmptyMap
        /\ newCall' = [loadOk |-> loadOk, res |-> IF ok THEN "ok" ELSE "config"]
        /\ call' = NoCall
        /\ step' = "new"
        /\ UNCHANGED <<disk, files, everOk, disc, txt, ast, fn, conc>>

\* Linter::load_rule(path): forwards to the host; a refused module changes nothing.
LoadRule(m) ==
    /\ linter = "ready"
    /\ batch.pc # "running"
    /\ budget.loads > 0
    /\ budget.batches > 0
    /\ budget' = [budget EXCEPT !.loads = @ - 1]
    /\ host' = IF HostCanLoad(host, m) THEN HostLoadRule(host, m) ELSE host
    /\ batch' = IdleBatch
    /\ call' = NoCall
    /\ newCall' = NoNewCall
    /\ step' = "load_rule"
    /\ UNCHANGED <<linter, config, cache, disk, files, last, everOk, disc, txt, ast, fn, conc>>

\* The environment changes a file.
WriteFile(p, s) ==
    /\ batch.pc # "running"
    /\ budget.writes > 0
    /\ budget.batches > 0
    /\ files[p] # s
    /\ budget' = [budget EXCEPT !.writes = @ - 1]
    /\ files' = [files EXCEPT ![p] = s]
    /\ batch' = IdleBatch
    /\ call' = NoCall
    /\ newCall' = NoNewCall
    /\ step' = "write"
    /\ UNCHANGED <<linter, config, host, cache, disk, last, everOk, disc, txt, ast, fn, conc>>

\* lint_files(paths) is called.
LintFiles(paths) ==
    /\ linter = "ready"
    /\ batch.pc # "running"
    /\ budget.batches > 0
    /\ budget' = [budget EXCEPT !.batches = @ - 1]
    /\ batch' = [IdleBatch EXCEPT !.pc = "running", !.paths = paths]
    /\ call' = NoCall
    /\ newCall' = NoNewCall
    /\ step' = "lint_files"
    /\ UNCHANGED <<linter, config, host, cache, disk, files, last, everOk, disc, txt, ast, fn, conc>>

\* One iteration of the loop: lint_file(paths[i]) and the match on what it returned.
LintNext(outcome) ==
    /\ batch.pc = "running"
    /\ batch.i <= Len(batch.paths)
    /\ LET p == batch.paths[batch.i]
           read == ReadToString(p)
           r == lint_file(p, outcome)
       IN  /\ outcome \in (IF read.ok THEN HostOutcomes(host, read.content)
                           ELSE {"convert"})
           /\ cache' = r.cache
           /\ batch' = [batch EXCEPT
                  !.i = @ + 1,
                  !.results = IF r.res = "ok" THEN PushResult(@, r.result)
                              ELSE SkipFailed(@),
                  !.oks = Append(@, r.res = "ok")]
           /\ call' = [path |-> p, readOk |-> read.ok, content |-> read.content,
                       versions |-> GetRuleVersions(host),
                       ruleFails |-> read.ok /\ RuleFails(host, read.content),
                       outcome |-> outcome, res |-> r.res, result |-> r.result,
                       parsed |-> r.parsed, ran |-> r.ran,
                       prev |-> IF p \in DOMAIN last THEN <<last[p]>> ELSE <<>>]
           /\ last' = IF r.res = "ok"
                      THEN MapPut(last, p, [content |-> read.content,
                                            versions |-> GetRuleVersions(host),
                                            diagnostics |-> r.result.diagnostics])
                      ELSE last
           /\ everOk' = IF r.res = "ok" THEN everOk \cup {p} ELSE everOk
    /\ step' = "lint_file"
    /\ UNCHANGED <<linter, config, host, disk, files, newCall, budget, disc, txt, ast, fn, conc>>

\* After the loop: cache.save() is attempted and Ok(results) returned.
SaveAndReturn(saveOk) ==
    /\ batch.pc = "running"
    /\ batch.i > Len(batch.paths)
    /\ disk' = CacheSave(cache, disk, saveOk)
    /\ batch' = [batch EXCEPT
           !.pc = "done",
           !.saves = @ + 1,
           !.savedAt = batch.i - 1,
           !.saveOk = saveOk,
           !.ret = LintFilesReturn(batch.results, saveOk)]
    /\ call' = NoCall
    /\ step' = "save"
    /\ UNCHANGED <<linter, config, host, cache, files, last, everOk, newCall, budget, disc, txt, ast, fn, conc>>

Next ==
    \/ \E v \in ConfigValues : \E order \in HashMapOrders(v) : \E loadOk \in BOOLEAN :
           New(v, order, loadOk)
    \/ \E m \in RuleModules : LoadRule(m)
    \/ \E p \in Paths : \E s \in FileStates : WriteFile(p, s)
    \/ \E paths \in SeqsUpTo(Paths, MaxBatchLen) : LintFiles(paths)
    \/ \E outcome \in {"convert", "report"} : LintNext(outcome)
    \/ \E saveOk \in BOOLEAN : SaveAndReturn(saveOk)

Spec == Init /\ [][Next]_vars

(***************************************************************************)
(* Properties of the Linter (checked under Spec).                          *)
(***************************************************************************)
\* The stored entry for p carries the fingerprint of content under the current
\* configuration and rule set.
EntryMatches(c, p, content) ==
    /\ p \in DOMAIN c.entries
    /\ c.entries[p].content_hash = HashContent(content)
    /\ c.entries[p].config_hash = ConfigHash(config)
    /\ c.entries[p].rule_versions = GetRuleVersions(host)

\* The lint_file call that just returned read the same content, under the same
\* rule versions, as the last successful lint of its path by this Linter (whose
\* configuration never changes).
RepeatsLastLint ==
    /\ step = "lint_file"
    /\ call.readOk
    /\ call.prev # <<>>
    /\ call.prev[1].content = call.content
    /\ call.prev[1].versions = call.versions

\* C1: with the cache enabled, a lint of a path that this Linter linted
\* successfully before, with the content and the rule versions unchanged, returns
\* from_cache = true with the diagnostics of that earlier result, and neither the
\* parser nor the rules run.
C1_CacheHitOnRepeat ==
    (RepeatsLastLint /\ config.cache) =>
        /\ call.res = "ok"
        /\ call.result.from_cache
        /\ call.result.diagnostics = call.prev[1].diagnostics
        /\ ~call.parsed
        /\ ~call.ran

C1_Witness ==
    /\ RepeatsLastLint
    /\ config.cache
    /\ call.result.from_cache
    /\ call.result.diagnostics # <<>>

\* C2: a result returned by lint_file has from_cache = true only if config.cache
\* is true and the stored entry of the path carries the current content hash,
\* config hash and rule versions; whenever that is not so (the content, the
\* configuration or the rule versions changed, or the cache is off) the result
\* has from_cache = false, the file was parsed and the rules ran, and the entry
\* stored afterwards carries the new fingerprint.
C2_HitOnlyOnMatchingFingerprint ==
    [][ (step' = "lint_file" /\ call'.res = "ok") =>
          LET p == call'.path
              match == config.cache /\ EntryMatches(cache, p, call'.content)
          IN  /\ call'.result.from_cache => match
              /\ ~match => /\ ~call'.result.from_cache
                           /\ call'.parsed
                           /\ call'.ran
                           /\ EntryMatches(cache', p, call'.content) ]_vars

C2_Witness ==
    /\ step = "lint_file"
    /\ call.res = "ok"
    /\ ~call.result.from_cache
    /\ call.prev # <<>>
    /\ call.prev[1].content # call.content
    /\ EntryMatches(cache, call.path, call.content)

\* The paths among the first Len(oks) of paths whose lint succeeded, in order.
RECURSIVE Succeeded(_, _)
Succeeded(paths, oks) ==
    IF paths = <<>> \/ oks = <<>> THEN <<>>
    ELSE (IF Head(oks) THEN <<Head(paths)>> ELSE <<>>)
         \o Succeeded(Tail(paths), Tail(oks))

\* C3: lint_files returns Ok whatever happened to single files; every path of the
\* list was processed, and the results are exactly those of the paths that linted
\* successfully, in the order of the input list.
C3_BatchSkipsFailures ==
    batch.pc = "done" =>
        /\ batch.ret.ok
        /\ Len(batch.oks) = Len(batch.paths)
        /\ [i \in DOMAIN batch.ret.results |-> batch.ret.results[i].path]
               = Succeeded(batch.paths, batch.oks)

C3_Witness ==
    /\ batch.pc = "done"
    /\ batch.oks = <<FALSE, TRUE>>
    /\ Len(batch.ret.results) = 1

\* C4: when a rule fails while a file is linted, lint_file still returns a result
\* for the file, with the other rules' diagnostics and the host's diagnostic for
\* the failed rule, and the file's entry is stored.
C4_RuleFailureKeepsFile ==
    (step = "lint_file" /\ call.ran /\ call.ruleFails) =>
        /\ call.res = "ok"
        /\ call.result.diagnostics = RunAllRulesDiagnostics(host, call.content)
        /\ EntryMatches(cache, call.path, call.content)

\* C5: a lint_file call that fails leaves the cache as it was; the cache changes
\* only in a call in which parsing and rule execution both succeeded; and a path
\* has an entry only if some lint of it succeeded.
C5_FailedLintWritesNothing ==
    [][ /\ (step' = "lint_file" /\ call'.res # "ok") => cache' = cache
        /\ (step' = "lint_file" /\ cache' # cache) =>
               (call'.parsed /\ call'.ran /\ call'.res = "ok")
        /\ \A p \in DOMAIN cache'.entries : p \in everOk' ]_vars

C5_Witness ==
    /\ step = "lint_file"
    /\ call.res = "parse"
    /\ call.path \notin DOMAIN cache.entries
    /\ call.path \notin everOk

\* C6: a lint_files call attempts cache.save() exactly once, after all its paths
\* were processed, and returns Ok(results) whether or not the save succeeded;
\* Linter::new, its globs being valid, returns Ok when cache.load() fails.
C6_PersistenceNeverFatal ==
    /\ batch.pc = "done" =>
           /\ batch.saves = 1
           /\ batch.savedAt = Len(batch.paths)
           /\ batch.ret = [ok |-> TRUE, results |-> batch.results]
    /\ (step = "new" /\ ~newCall.loadOk
            /\ BuildGlobsetOk(config.include) /\ BuildGlobsetOk(config.exclude)) =>
           (newCall.res = "ok" /\ linter = "ready")

C6_Witness ==
    /\ batch.pc = "done"
    /\ ~batch.saveOk
    /\ batch.oks = <<TRUE, FALSE>>
    /\ batch.saves = 1

(***************************************************************************)
(* The plain-text parser's specification: every source up to MaxSourceLen, *)
(* parsed one loop iteration per step.                                     *)
(***************************************************************************)
TextInit ==
    /\ LinterInit
    /\ disc = DiscIdle
    /\ fn = FnIdle
    /\ conc = ConcIdle
    /\ ast = AstStart
    /\ txt \in {ParseStart(source) : source \in SeqsUpTo(Chars, MaxSourceLen)}

TextLine ==
    /\ txt.pc = "loop"
    /\ txt.idx < Len(txt.lines)
    /\ txt' = ParseLine(txt)
    /\ UNCHANGED <<linterVars, disc, ast, fn, conc>>

TextFinal ==
    /\ txt.pc = "loop"
    /\ txt.idx = Len(txt.lines)
    /\ txt' = ParseFinal(txt)
    /\ UNCHANGED <<linterVars, disc, ast, fn, conc>>

\* The same source given to the Markdown parser: to_mdast returns some tree, which
\* convert_node turns into the AST.
TextMarkdown(mdast) ==
    /\ txt.pc = "done"
    /\ ast.pc = "start"
    /\ ast' = [ast EXCEPT !.pc = "parsed", !.mdast = <<mdast>>,
                          !.md = <<MarkdownParse(mdast)>>]
    /\ UNCHANGED <<linterVars, disc, txt, fn, conc>>

\* ast_to_json of either parser's AST, as lint_file calls it after parse.
TextToJson ==
    /\ ast.pc = "parsed"
    /\ ast' = [ast EXCEPT !.pc = "done",
                          !.md_json = <<ast_to_json(ast.md[1])>>,
                          !.text_json = <<ast_to_json(txt.document[1])>>]
    /\ UNCHANGED <<linterVars, disc, txt, fn, conc>>

TextNext ==
    \/ TextLine
    \/ TextFinal
    \/ \E mdast \in MdastTrees(Len(txt.source)) : TextMarkdown(mdast)
    \/ TextToJson

SpecText == TextInit /\ [][TextNext]_vars

(***************************************************************************)
(* Properties of the plain-text parser (checked under SpecText).  The      *)
(* reference below is the paragraphing the design document describes,      *)
(* computed from the true line offsets.                                    *)
(***************************************************************************)
\* The true byte offset at which each line of str::lines() starts.
RECURSIVE PieceStarts(_, _)
PieceStarts(pieces, at) ==
    IF pieces = <<>> THEN <<>>
    ELSE <<at>> \o PieceStarts(Tail(pieces), at + Len(Head(pieces)))

TrueLineStarts(source) == PieceStarts(SplitInclusive(source), 0)

\* The paragraph that covers the bytes from .. to of the source: its trimmed text
\* and the span from its first to just after its last non-blank byte.
TrimmedParagraph(source, from, to) ==
    LET text == Slice(source, from, to)
        lead == Len(text) - Len(TrimStart(text))
    IN  [value |-> Trim(text),
         span |-> [start |-> from + lead, end |-> from + lead + Len(Trim(text))]]

\* One paragraph per maximal run of non-blank lines, from line k on; open is the
\* offset at which the current run started, -1 outside a run.
RECURSIVE ExpectedFrom(_, _, _, _)
ExpectedFrom(source, k, open, lastEnd) ==
    LET lines == Lines(source)
        starts == TrueLineStarts(source)
    IN  IF k > Len(lines)
        THEN IF open # -1 THEN <<TrimmedParagraph(source, open, lastEnd)>> ELSE <<>>
        ELSE IF Trim(lines[k]) = <<>>
        THEN (IF open # -1 THEN <<TrimmedParagraph(source, open, lastEnd)>> ELSE <<>>)
             \o ExpectedFrom(source, k + 1, -1, lastEnd)
        ELSE ExpectedFrom(source, k + 1, IF open = -1 THEN starts[k] ELSE open,
                          starts[k] + Len(lines[k]))

ExpectedParagraphs(source) == ExpectedFrom(source, 1, -1, 0)

ParagraphValues(document) ==
    [k \in DOMAIN document.children |-> document.children[k].children[1].value]

\* C8: the Document has one Paragraph per maximal run of non-blank lines, in
\* source order, each with exactly one Str child whose value is the paragraph's
\* text with leading and trailing whitespace trimmed.
C8_ParagraphsAreTrimmedRuns ==
    txt.pc = "done" =>
        LET doc == txt.document[1]
            expected == ExpectedParagraphs(txt.source)
        IN  /\ doc.node_type = "Document"
            /\ Len(doc.children) = Len(expected)
            /\ \A k \in DOMAIN doc.children :
                   /\ doc.children[k].node_type = "Paragraph"
                   /\ Len(doc.children[k].children) = 1
                   /\ doc.children[k].children[1].node_type = "Str"
            /\ ParagraphValues(doc) = [k \in DOMAIN expected |-> expected[k].value]

\* C9: every Paragraph's span runs from the paragraph's first non-blank byte to
\* just after its last non-blank byte.
C9_SpanIsNonBlankExtent ==
    txt.pc = "done" =>
        LET doc == txt.document[1]
            expected == ExpectedParagraphs(txt.source)
        IN  [k \in DOMAIN doc.children |-> doc.children[k].span]
                = [k \in DOMAIN expected |-> expected[k].span]

\* A source whose line endings are all "\r\n", with at least one of them.
IsCRLFSource(source) ==
    /\ \E i \in DOMAIN source : source[i] = LF
    /\ \A i \in DOMAIN source : source[i] = LF => (i > 1 /\ source[i - 1] = CR)
    /\ \A i \in DOMAIN source : source[i] = CR => (i < Len(source) /\ source[i + 1] = LF)

\* The same text with "\n" line endings.
ToLF(s) == SelectSeq(s, LAMBDA ch : ch # CR)

\* C10: for a source with CRLF line endings the loop's line-start offsets are the
\* true offsets of the lines, and the paragraphs are those of the LF-only version
\* of the source: as many, with the same text.
C10_CRLFSameAsLF ==
    (txt.pc = "done" /\ IsCRLFSource(txt.source)) =>
        LET doc == txt.document[1]
            lfDoc == PlainTextParse(ToLF(txt.source))
        IN  /\ txt.line_starts = TrueLineStarts(txt.source)
            /\ Len(doc.children) = Len(lfDoc.children)
            /\ [k \in DOMAIN doc.children |-> ToLF(ParagraphValues(doc)[k])]
                   = ParagraphValues(lfDoc)

\* Every node of the tree has a span inside a source of n bytes.
RECURSIVE SpansWithin(_, _)
SpansWithin(node, n) ==
    /\ 0 <= node.span.start
    /\ node.span.start <= node.span.end
    /\ node.span.end <= n
    /\ \A i \in DOMAIN node.children : SpansWithin(node.children[i], n)

\* C11: every node of the AST either parser returns has a span with
\* 0 <= start <= end <= len(source), and the span of the plain-text Document is
\* 0 .. len(source).
C11_SpansWithinSource ==
    /\ txt.pc = "done" =>
           /\ SpansWithin(txt.document[1], Len(txt.source))
           /\ txt.document[1].span = [start |-> 0, end |-> Len(txt.source)]
    /\ ast.pc \in {"parsed", "done"} => SpansWithin(ast.md[1], Len(txt.source))

\* A CRLF source, whose line offsets the loop gets wrong, gave a paragraph, and
\* the Markdown AST of the same source has a child with a position of its own.
C11_Witness ==
    /\ txt.pc = "done"
    /\ IsCRLFSource(txt.source)
    /\ txt.line_starts # TrueLineStarts(txt.source)
    /\ txt.document[1].children # <<>>
    /\ ast.pc = "parsed"
    /\ ast.md[1].children # <<>>
    /\ ast.md[1].children[1].span.start < ast.md[1].children[1].span.end

\* The value and attribute fields a node can carry.
AttributeFields ==
    {"value", "depth", "ordered", "url", "title", "lang", "identifier", "label"}

\* The JSON object of a node has its type, its range, its children in order and
\* each field the node carries, and so has every object below it.
RECURSIVE JsonCarries(_, _)
JsonCarries(node, json) ==
    /\ json.type = NodeTypeDisplay[node.node_type]
    /\ json.range = <<node.span.start, node.span.end>>
    /\ Len(json.children) = Len(node.children)
    /\ \A i \in DOMAIN node.children : JsonCarries(node.children[i], json.children[i])
    /\ \A f \in AttributeFields \cap DOMAIN node :
           f \in DOMAIN json /\ json[f] = node[f]

\* C13: ast_to_json emits for every node its type, its range and its children
\* in AST order, and each value or attribute field the node carries under its
\* name, so that a Header's depth, a Link's url and a Str's value are in the JSON
\* the rules receive.
C13_JsonCarriesNodeFields ==
    ast.pc = "done" =>
        /\ JsonCarries(ast.md[1], ast.md_json[1])
        /\ JsonCarries(txt.document[1], ast.text_json[1])

(***************************************************************************)
(* The specification of discover_files: every list of patterns up to       *)
(* MaxPatterns, every include and exclude globset, every walk order.       *)
(***************************************************************************)
DiscoverInit ==
    /\ LinterInit
    /\ txt = TxtIdle
    /\ ast = AstIdle
    /\ fn = FnIdle
    /\ conc = ConcIdle
    /\ disc \in {DiscoverStart(patterns, include, exclude, walk) :
                    patterns \in SeqsUpTo(Globs \cup {"["}, MaxPatterns),
                    include \in SUBSET Globs, exclude \in SUBSET Globs,
                    walk \in WalkOrders}

DiscoverStep ==
    /\ disc.pc = "loop"
    /\ disc.k <= Len(disc.patterns)
    /\ disc' = DiscoverPattern(disc)
    /\ UNCHANGED <<linterVars, txt, ast, fn, conc>>

DiscoverFinish ==
    /\ disc.pc = "loop"
    /\ disc.k > Len(disc.patterns)
    /\ disc' = DiscoverReturn(disc)
    /\ UNCHANGED <<linterVars, txt, ast, fn, conc>>

DiscoverNext == DiscoverStep \/ DiscoverFinish

SpecDiscover == DiscoverInit /\ [][DiscoverNext]_vars

\* The files discovery is to return: the regular files that match a pattern,
\* match the include globset when there is one, and do not match the exclude
\* globset.
ExpectedFiles(d) ==
    {e.path : e \in {x \in DirEntries :
        /\ x.is_file
        /\ \E k \in DOMAIN d.patterns : GlobMatches(d.patterns[k], x.path)
        /\ (d.include = {} \/ \E g \in d.include : GlobMatches(g, x.path))
        /\ ~\E g \in d.exclude : GlobMatches(g, x.path)}}

\* C7: discover_files returns exactly the regular files that match at least one
\* pattern, match the include globset when it is not empty and do not match the
\* exclude globset, in ascending path order and each path once.
C7_DiscoverySortedDedupFiltered ==
    (disc.pc = "done" /\ disc.ret.ok) =>
        /\ Range(disc.ret.files) = ExpectedFiles(disc)
        /\ \A i \in 1..(Len(disc.ret.files) - 1) :
               PathRank(disc.ret.files[i]) < PathRank(disc.ret.files[i + 1])

\* Two patterns found the same files, the walk met them out of path order, and a
\* file that matches include and exclude was left out.
C7_Witness ==
    /\ disc.pc = "done"
    /\ disc.ret.ok
    /\ Len(disc.files) > Len(disc.ret.files)
    /\ Len(disc.ret.files) >= 2
    /\ \E i \in 1..(Len(disc.files) - 1) :
           PathRank(disc.files[i]) > PathRank(disc.files[i + 1])
    /\ \E e \in DirEntries :
           /\ e.is_file
           /\ GlobSetMatches(disc.include, e.path)
           /\ GlobSetMatches(disc.exclude, e.path)
           /\ e.path \notin Range(disc.ret.files)

(***************************************************************************)
(* The specification of the pure operations: the configuration's hash and  *)
(* enabled_rules, the choice of the parser for a path, and the summary of  *)
(* a list of results, each applied to every input of a bounded set.        *)
(***************************************************************************)
RuleNamePool == <<"no-todo", "max-lines", "no-dup", "no-tabs">>

FnRuleNames == {RuleNamePool[i] : i \in 1..MaxRules}

RuleConfigValues ==
    {RuleEnabled(TRUE), RuleEnabled(FALSE), RuleSeverity("off"), RuleSeverity("OFF"),
     RuleSeverity("error"), RuleOptions("max=100")}

\* The configurations: every map from some of the rule names to a RuleConfig.
FnConfigValues ==
    {[LinterConfigNew EXCEPT !.rules = rules] :
         rules \in UNION {[names -> RuleConfigValues] : names \in SUBSET FnRuleNames}}

FnPaths ==
    {"a.md", "a.tar.md", "dir.txt/a.md", "A.MD", "a.Md", "a.markdown", "a.MarkDown",
     "a.mdown", "a.mkdn", "a.mkd", "b.txt", "a.md.txt", "B.TXT", "b.text", "a.rs",
     "a.mdx", "a.", "README", ".md", "dir.md/README"}

FnDiagnostic == [rule_id |-> "good", message |-> "todo found"]

FnResults ==
    {LintResultNew("a.md", diagnostics) :
         diagnostics \in {<<>>, <<FnDiagnostic>>, <<FnDiagnostic, FnDiagnostic>>}}
    \cup {LintResultCached("a.md", diagnostics) :
         diagnostics \in {<<>>, <<FnDiagnostic>>, <<FnDiagnostic, FnDiagnostic>>}}

FnInit ==
    /\ LinterInit
    /\ disc = DiscIdle
    /\ txt = TxtIdle
    /\ ast = AstIdle
    /\ conc = ConcIdle
    /\ fn = FnStart

\* config.hash() on two LinterConfig instances of one value, as two runs build them.
FnHash(v, first, second) ==
    /\ fn = FnStart
    /\ fn' = [op |-> "hash", cfg |-> v, orders |-> <<first, second>>,
               first |-> ConfigHash([v EXCEPT !.iter = first]),
               second |-> ConfigHash([v EXCEPT !.iter = second])]
    /\ UNCHANGED <<linterVars, disc, txt, ast, conc>>

\* config.enabled_rules()
FnEnabledRules(v, order) ==
    /\ fn = FnStart
    /\ fn' = [op |-> "enabled_rules", cfg |-> [v EXCEPT !.iter = order],
               out |-> EnabledRules([v EXCEPT !.iter = order])]
    /\ UNCHANGED <<linterVars, disc, txt, ast, conc>>

\* The parser lint_file selects for a path.
FnSelectParser(p) ==
    /\ fn = FnStart
    /\ fn' = [op |-> "select_parser", path |-> p, extension |-> Extension(p),
               out |-> SelectParser(Extension(p))]
    /\ UNCHANGED <<linterVars, disc, txt, ast, conc>>

\* LintSummary::from_results(results)
FnFromResults(results) ==
    /\ fn = FnStart
    /\ fn' = [op |-> "from_results", results |-> results, out |-> FromResults(results)]
    /\ UNCHANGED <<linterVars, disc, txt, ast, conc>>

FnNext ==
    \/ \E v \in FnConfigValues : \E first \in HashMapOrders(v) :
           \E second \in HashMapOrders(v) : FnHash(v, first, second)
    \/ \E v \in FnConfigValues : \E order \in HashMapOrders(v) : FnEnabledRules(v, order)
    \/ \E p \in FnPaths : FnSelectParser(p)
    \/ \E results \in SeqsUpTo(FnResults, MaxResults) : FnFromResults(results)

SpecFn == FnInit /\ [][FnNext]_vars

\* C12: two LinterConfig values with equal rules, plugins, include, exclude,
\* cache and cache_dir have the same hash, whatever the order in which their
\* rules maps iterate.
C12_ConfigHashDependsOnValueOnly ==
    fn.op = "hash" => fn.first = fn.second

\* The entries of the rules map that are enabled as the configuration format
\* says: a boolean is its value, a severity enables unless it is exactly "off",
\* options always enable.
EnabledEntries(cfg) ==
    {<<name, cfg.rules[name]>> : name \in
        {n \in DOMAIN cfg.rules :
            \/ cfg.rules[n].kind = "Enabled" /\ cfg.rules[n].value = TRUE
            \/ cfg.rules[n].kind = "Severity" /\ cfg.rules[n].value # "off"
            \/ cfg.rules[n].kind = "Options"}}

\* C14: enabled_rules() returns exactly the entries of config.rules that are
\* enabled (Enabled(b): b; Severity(s): s is not exactly "off"; Options: always),
\* each once.
C14_EnabledRulesExact ==
    fn.op = "enabled_rules" =>
        /\ Range(fn.out) = EnabledEntries(fn.cfg)
        /\ Len(fn.out) = Cardinality(EnabledEntries(fn.cfg))

\* A configuration with a rule switched off by "off", one by false, and one kept
\* on by another spelling of off.
C14_Witness ==
    /\ fn.op = "enabled_rules"
    /\ \E a, b \in DOMAIN fn.cfg.rules :
           /\ fn.cfg.rules[a] = RuleSeverity("OFF")
           /\ fn.cfg.rules[b] \in {RuleSeverity("off"), RuleEnabled(FALSE)}
           /\ fn.out = << <<a, RuleSeverity("OFF")>> >>

\* C15: the Markdown parser is selected exactly when the path's extension, in
\* lowercase, is one of md, markdown, mdown, mkdn, mkd; every other path, with
\* or without an extension, gets the plain-text parser.
C15_ParserSelection ==
    fn.op = "select_parser" =>
        LET markdown == /\ PathExtension(fn.path) # <<>>
                        /\ AsciiLowercase(PathExtension(fn.path)[1])
                               \in {"md", "markdown", "mdown", "mkdn", "mkd"}
        IN  /\ fn.out \in {"markdown", "text"}
            /\ fn.out = "markdown" <=> markdown

C15_Witness ==
    /\ fn.op = "select_parser"
    /\ fn.extension = "MD"
    /\ fn.out = "markdown"

\* The sum of the diagnostics of the results.
RECURSIVE DiagnosticsIn(_)
DiagnosticsIn(results) ==
    IF results = <<>> THEN 0
    ELSE Len(Head(results).diagnostics) + DiagnosticsIn(Tail(results))

\* C16: from_results counts the results, those taken from the cache, the
\* diagnostics of all of them and the results with at least one diagnostic; so
\* files_from_cache <= files_checked and files_with_errors is at most
\* files_checked and at most total_diagnostics.
C16_SummaryCounts ==
    fn.op = "from_results" =>
        LET results == fn.results
            summary == fn.out
        IN  /\ summary.files_checked = Len(results)
            /\ summary.files_from_cache
                   = Cardinality({i \in DOMAIN results : results[i].from_cache})
            /\ summary.total_diagnostics = DiagnosticsIn(results)
            /\ summary.files_with_errors
                   = Cardinality({i \in DOMAIN results : Len(results[i].diagnostics) >= 1})
            /\ summary.files_from_cache <= summary.files_checked
            /\ summary.files_with_errors <= summary.files_checked
            /\ summary.files_with_errors <= summary.total_diagnostics

C16_Witness ==
    /\ fn.op = "from_results"
    /\ fn.out = [files_checked |-> 3, files_from_cache |-> 1, total_diagnostics |-> 3,
                 files_with_errors |-> 2]

(***************************************************************************)
(* Threads sharing one Linter.  Linter's methods take &self and its two    *)
(* shared fields are Mutexes, so lint_files and load_rule can run at the   *)
(* same time; each thread advances one lock operation or one stage at a    *)
(* step.  A lock is "none" or the thread that holds it.  The threads of a  *)
(* file's lint are the stages of lint_file:                                *)
(*   read, versions_lock, versions, check_lock, check, parse, run_lock,    *)
(*   run, set_lock, set; then save_lock, save in lint_files; and           *)
(*   load_lock, load in load_rule.                                         *)
(***************************************************************************)
Threads == {"t1", "t2"}

ConcThreadIdle(calls) ==
    [pc |-> "idle", calls |-> calls, paths |-> <<>>, i |-> 1, module |-> <<>>,
     content |-> "", rule_versions |-> EmptyMap, diagnostics |-> <<>>,
     ranWith |-> EmptyMap]

ConcStart ==
    [pc |-> "on", host |-> PluginHostNew, cache |-> NewCache(LinterConfigNew),
     cacheLock |-> "none", hostLock |-> "none",
     threads |-> [t \in Threads |-> ConcThreadIdle(MaxThreadCalls)],
     produced |-> EmptyMap]

\* A MutexGuard is dropped: the lock is free.
Unlocked == "none"

\* Variant of AfterCacheCheck: the guard of the cache check lives on after a miss.
AfterCacheCheckHeld(lock, hit) == IF hit THEN Unlocked ELSE lock

\* The cache lock when the block of the cache check is left, by the return on a
\* hit or at its closing brace on a miss.
AfterCacheCheck(lock, hit) == Unlocked

\* lint_files goes on after lint_file returned, its locals gone: the next path,
\* or the save.
ConcAfterFile(th) ==
    [ConcThreadIdle(th.calls) EXCEPT
        !.paths = th.paths,
        !.i = th.i + 1,
        !.pc = IF th.i + 1 > Len(th.paths) THEN "save_lock" ELSE "read"]

ConcInit ==
    /\ LinterInit
    /\ disc = DiscIdle
    /\ txt = TxtIdle
    /\ ast = AstIdle
    /\ fn = FnIdle
    /\ conc = ConcStart

ConcUnchanged == UNCHANGED <<linterVars, disc, txt, ast, fn>>

\* A thread calls lint_files(paths).
ConcLintFiles(t, paths) ==
    /\ conc.threads[t].pc = "idle"
    /\ conc.threads[t].calls > 0
    /\ conc' = [conc EXCEPT !.threads[t] =
           [ConcThreadIdle(@.calls - 1) EXCEPT
               !.pc = IF paths = <<>> THEN "save_lock" ELSE "read",
               !.paths = paths]]
    /\ ConcUnchanged

\* A thread calls load_rule(path of module m).
ConcCallLoadRule(t, m) ==
    /\ conc.threads[t].pc = "idle"
    /\ conc.threads[t].calls > 0
    /\ conc' = [conc EXCEPT !.threads[t] =
           [ConcThreadIdle(@.calls - 1) EXCEPT !.pc = "load_lock", !.module = <<m>>]]
    /\ ConcUnchanged

\* lint_file: fs::read_to_string and the two hashes; an error returns at once.
ConcRead(t) ==
    LET th == conc.threads[t]
        read == ReadToString(th.paths[th.i])
    IN  /\ th.pc = "read"
        /\ conc' = [conc EXCEPT !.threads[t] =
               IF read.ok THEN [th EXCEPT !.pc = "versions_lock", !.content = read.content]
               ELSE ConcAfterFile(th)]
        /\ ConcUnchanged

\* plugin_host.lock(): the thread waits until the lock is free.
ConcLockHost(t) ==
    /\ conc.threads[t].pc \in {"versions_lock", "run_lock", "load_lock"}
    /\ conc.hostLock = "none"
    /\ conc' = [conc EXCEPT
           !.hostLock = t,
           !.threads[t].pc = CASE @ = "versions_lock" -> "versions"
                               [] @ = "run_lock" -> "run"
                               [] @ = "load_lock" -> "load"]
    /\ ConcUnchanged

\* cache.lock(): the thread waits until the lock is free.
ConcLockCache(t) ==
    /\ conc.threads[t].pc \in {"check_lock", "set_lock", "save_lock"}
    /\ conc.cacheLock = "none"
    /\ conc' = [conc EXCEPT
           !.cacheLock = t,
           !.threads[t].pc = CASE @ = "check_lock" -> "check"
                               [] @ = "set_lock" -> "set"
                               [] @ = "save_lock" -> "save"]
    /\ ConcUnchanged

\* get_rule_versions under the host lock, which its return releases.
ConcGetRuleVersions(t) ==
    /\ conc.threads[t].pc = "versions"
    /\ conc' = [conc EXCEPT
           !.hostLock = Unlocked,
           !.threads[t].rule_versions = GetRuleVersions(conc.host),
           !.threads[t].pc = "check_lock"]
    /\ ConcUnchanged

\* The cache check under the cache lock: a hit returns the cached result.
ConcCheckCache(t) ==
    LET th == conc.threads[t]
        p == th.paths[th.i]
        hit == /\ CacheIsValid(conc.cache, p, HashContent(th.content),
                               ConfigHash(config), th.rule_versions)
               /\ CacheHas(conc.cache, p)
    IN  /\ th.pc = "check"
        /\ conc' = [conc EXCEPT
               !.cacheLock = AfterCacheCheck(@, hit),
               !.threads[t] = IF hit THEN ConcAfterFile(th)
                              ELSE [th EXCEPT !.pc = "parse"]]
        /\ ConcUnchanged

\* select_parser, parse and ast_to_json; a parse error returns.
ConcParse(t) ==
    LET th == conc.threads[t]
        p == th.paths[th.i]
    IN  /\ th.pc = "parse"
        /\ conc' = [conc EXCEPT !.threads[t] =
               IF ParseOk(SelectParser(Extension(p)), th.content)
               THEN [th EXCEPT !.pc = "run_lock"]
               ELSE ConcAfterFile(th)]
        /\ ConcUnchanged

\* run_all_rules under the host lock; the guard is dropped at the end of the
\* block, also when ? returns the error.
ConcRunAllRules(t, outcome) ==
    LET th == conc.threads[t]
        run == RunAllRules(conc.host, th.content, outcome)
    IN  /\ th.pc = "run"
        /\ outcome \in HostOutcomes(conc.host, th.content)
        /\ conc' = [conc EXCEPT
               !.hostLock = Unlocked,
               !.threads[t] =
                   IF run.ok
                   THEN [th EXCEPT !.pc = "set_lock",
                                   !.diagnostics = run.diagnostics,
                                   !.ranWith = GetRuleVersions(conc.host)]
                   ELSE ConcAfterFile(th)]
        /\ ConcUnchanged

\* cache.set of the new entry under the cache lock; lint_file returns Ok.
ConcCacheSet(t) ==
    LET th == conc.threads[t]
        p == th.paths[th.i]
    IN  /\ th.pc = "set"
        /\ conc' = [conc EXCEPT
               !.cacheLock = Unlocked,
               !.cache = CacheSet(@, p, LintFileEntry(HashContent(th.content),
                                                      ConfigHash(config),
                                                      th.rule_versions, th.diagnostics)),
               !.produced = MapPut(@, p, [content |-> th.content,
                                          versions |-> th.ranWith]),
               !.threads[t] = ConcAfterFile(th)]
        /\ ConcUnchanged

\* lint_files: cache.lock().unwrap().save(), then Ok(results).
ConcSave(t) ==
    /\ conc.threads[t].pc = "save"
    /\ conc' = [conc EXCEPT
           !.cacheLock = Unlocked,
           !.threads[t] = ConcThreadIdle(@.calls)]
    /\ ConcUnchanged

\* load_rule under the host lock; a refused module is the error load_rule returns.
ConcLoadRule(t) ==
    LET m == conc.threads[t].module[1]
    IN  /\ conc.threads[t].pc = "load"
        /\ conc' = [conc EXCEPT
               !.hostLock = Unlocked,
               !.host = IF HostCanLoad(@, m) THEN HostLoadRule(@, m) ELSE @,
               !.threads[t] = ConcThreadIdle(@.calls)]
        /\ ConcUnchanged

ConcNext ==
    \E t \in Threads :
        \/ \E paths \in SeqsUpTo(Paths, MaxBatchLen) : ConcLintFiles(t, paths)
        \/ \E m \in RuleModules : ConcCallLoadRule(t, m)
        \/ ConcRead(t)
        \/ ConcLockHost(t)
        \/ ConcLockCache(t)
        \/ ConcGetRuleVersions(t)
        \/ ConcCheckCache(t)
        \/ ConcParse(t)
        \/ \E outcome \in {"convert", "report"} : ConcRunAllRules(t, outcome)
        \/ ConcCacheSet(t)
        \/ ConcSave(t)
        \/ ConcLoadRule(t)

SpecConc == ConcInit /\ [][ConcNext]_vars

\* A thread waits for a lock that another thread holds.
ConcBlocked(t) ==
    \/ /\ conc.threads[t].pc \in {"versions_lock", "run_lock", "load_lock"}
       /\ conc.hostLock # "none"
    \/ /\ conc.threads[t].pc \in {"check_lock", "set_lock", "save_lock"}
       /\ conc.cacheLock # "none"

\* Every thread that is inside a call waits for a lock.
ConcDeadlocked ==
    /\ \E t \in Threads : conc.threads[t].pc # "idle"
    /\ \A t \in Threads : conc.threads[t].pc # "idle" => ConcBlocked(t)

\* C17: no thread ever holds the cache lock and the host lock together; the
\* cache lock is not held while the file is read or parsed or while
\* run_all_rules runs, nor the host lock while the file is read or parsed; and
\* the threads calling lint_files and load_rule never all wait for each other.
C17_LockDiscipline ==
    /\ \A t \in Threads :
           /\ ~(conc.cacheLock = t /\ conc.hostLock = t)
           /\ conc.threads[t].pc \in {"read", "parse", "run_lock", "run"}
                  => conc.cacheLock # t
           /\ conc.threads[t].pc \in {"read", "parse"} => conc.hostLock # t
    /\ ~ConcDeadlocked

\* One thread is inside run_all_rules with the host lock, the other waits in
\* load_rule for that lock, and the cache already has an entry.
C17_Witness ==
    /\ conc.threads["t1"].pc = "run"
    /\ conc.hostLock = "t1"
    /\ conc.threads["t2"].pc = "load_lock"
    /\ conc.cacheLock = "none"
    /\ conc.cache.entries # EmptyMap

\* C18: every entry lint_file stored carries the versions of exactly the rules
\* that produced its diagnostics, and the hashes of the content and of the
\* configuration that were linted, whatever the other thread did meanwhile.
C18_EntrySelfConsistent ==
    \A p \in DOMAIN conc.cache.entries :
        /\ conc.cache.entries[p].rule_versions = conc.produced[p].versions
        /\ conc.cache.entries[p].content_hash = HashContent(conc.produced[p].content)
        /\ conc.cache.entries[p].config_hash = ConfigHash(config)

====
